---- MODULE Spec2Model ----
(***************************************************************************)
(* Model of the B-tree node codec of src/src/b_node.rs: a 4096-byte page   *)
(* and the accessors of `impl BNode`.                                       *)
(*                                                                          *)
(* Conventions.                                                             *)
(*  - A page is a function [0 .. BTREE_PAGE_SIZE-1 -> 0..255].              *)
(*  - A u16 is an integer in 0..65535.  u16 arithmetic goes through add16   *)
(*    and mul16, which follow the build profile: with overflow checks (the  *)
(*    debug profile) an overflowing operation panics, without them (the     *)
(*    release profile) it wraps modulo 2^16.                                *)
(*  - A u64 is the tuple of its four 16-bit limbs, least significant first  *)
(*    (TLC's integers are 32 bits wide).                                    *)
(*  - A panic (assert!, unreachable!, slice index out of range, overflow    *)
(*    check) ends the program: every pure operator returns an outcome       *)
(*    record whose field ok is FALSE, and no action is enabled afterwards.  *)
(*  - A returned key or value is a borrowed view of the page: the pair      *)
(*    <<lo, hi>> of the half-open byte range data[lo..hi].                  *)
(***************************************************************************)
EXTENDS Integers, Sequences, FiniteSets, TLC

\* ------------------------------------------------------------ constants
HEADER == 4
BTREE_PAGE_SIZE == 4096
BTREE_MAX_KEY_SIZE == 1000
BTREE_MAX_VAL_SIZE == 3000
\* 2^16: the modulus of u16 arithmetic
U16 == 65536
\* the result of a u16 computation that panicked
PANIC == -1

\* ------------------------------------------------------------ bounds
\* calls made on one page in one run
MaxCalls == 3
\* keys of a node built through the documented layout
MaxKeys == 2

\* ------------------------------------------------------------ bytes
Page == 0 .. (BTREE_PAGE_SIZE - 1)

\* u16::from_le_bytes(d[p..p+2])
from_le_bytes16(d, p) == d[p] + 256 * d[p + 1]

\* u16::to_le_bytes
to_le_bytes16(v) == << v % 256, v \div 256 >>

\* u64::from_le_bytes(d[p..p+8]), as four 16-bit limbs
from_le_bytes64(d, p) ==
    << from_le_bytes16(d, p), from_le_bytes16(d, p + 2),
       from_le_bytes16(d, p + 4), from_le_bytes16(d, p + 6) >>

\* u64::to_le_bytes
to_le_bytes64(v) ==
    to_le_bytes16(v[1]) \o to_le_bytes16(v[2]) \o to_le_bytes16(v[3]) \o to_le_bytes16(v[4])

\* d[p .. p+Len(bytes)].copy_from_slice(bytes)
RECURSIVE copy_from_slice(_, _, _)
copy_from_slice(d, p, bytes) ==
    IF bytes = << >> THEN d
    ELSE copy_from_slice([d EXCEPT ![p] = Head(bytes)], p + 1, Tail(bytes))

\* the bytes of the view <<lo, hi>>, as a sequence
ViewBytes(d, view) == [k \in 1 .. (view[2] - view[1]) |-> d[view[1] + k - 1]]

\* ------------------------------------------------------------ u16 arithmetic
\* a + b on u16 under the build profile oc (overflow checks on / off)
add16(oc, a, b) ==
    IF a = PANIC \/ b = PANIC THEN PANIC
    ELSE IF a + b < U16 THEN a + b
    ELSE IF oc THEN PANIC ELSE (a + b) % U16

\* a * b on u16 under the build profile oc
mul16(oc, a, b) ==
    IF a = PANIC \/ b = PANIC THEN PANIC
    ELSE IF a * b < U16 THEN a * b
    ELSE IF oc THEN PANIC ELSE (a * b) % U16

\* &data[lo as usize .. hi as usize]: panics when lo > hi or hi > len
slice_index(lo, hi) == lo # PANIC /\ hi # PANIC /\ lo <= hi /\ hi <= BTREE_PAGE_SIZE

\* ------------------------------------------------------------ outcomes
\* An outcome: ok (returned / panicked), val (the return value), pos (the
\* u16 position the accessor computed), acc (the byte ranges it sliced) and
\* data (the page afterwards).
Abort(d, zero) == [ok |-> FALSE, val |-> zero, pos |-> 0, acc |-> {}, data |-> d]
Return(d, v, p, a) == [ok |-> TRUE, val |-> v, pos |-> p, acc |-> a, data |-> d]

ZERO64 == << 0, 0, 0, 0 >>
NOVIEW == << 0, 0 >>

\* ------------------------------------------------------------ BNodeType
\* from_u16 with the two arms exchanged
from_u16_swapped(n) ==
    CASE n = 1 -> "LeafNode"
      [] n = 2 -> "InternalNode"
      [] OTHER -> "unreachable"

from_u16(n) ==
    CASE n = 1 -> "InternalNode"
      [] n = 2 -> "LeafNode"
      [] OTHER -> "unreachable"

\* ------------------------------------------------------------ BNode
b_type(d) ==
    LET k == from_u16(from_le_bytes16(d, 0))
    IN  IF k = "unreachable" THEN Abort(d, "unreachable")
        ELSE Return(d, k, 0, {<< 0, 2 >>})

n_keys(d) == from_le_bytes16(d, 2)

set_header(d, t, n) ==
    Return(copy_from_slice(copy_from_slice(d, 0, to_le_bytes16(t)), 2, to_le_bytes16(n)),
           0, 0, {<< 0, 2 >>, << 2, 4 >>})

\* get_ptr without its assert!(idx < self.n_keys())
get_ptr_noassert(d, oc, idx) ==
    LET position == add16(oc, HEADER, mul16(oc, 8, idx))
        end == add16(oc, position, 8)
    IN  IF ~slice_index(position, end) THEN Abort(d, ZERO64)
        ELSE Return(d, from_le_bytes64(d, position), position, {<< position, end >>})

get_ptr(d, oc, idx) ==
    IF ~(idx < n_keys(d)) THEN Abort(d, ZERO64)
    ELSE LET position == add16(oc, HEADER, mul16(oc, 8, idx))
             end == add16(oc, position, 8)
         IN  IF ~slice_index(position, end) THEN Abort(d, ZERO64)
             ELSE Return(d, from_le_bytes64(d, position), position, {<< position, end >>})

\* set_ptr storing through an unchecked slice: no panic when the slot ends
\* past the page
set_ptr_unchecked(d, oc, idx, value) ==
    IF ~(idx < n_keys(d)) THEN Abort(d, 0)
    ELSE LET position == add16(oc, HEADER, mul16(oc, 8, idx))
             end == add16(oc, position, 8)
         IN  IF position = PANIC \/ end = PANIC \/ end < position THEN Abort(d, 0)
             ELSE Return(copy_from_slice(d, position,
                             SubSeq(to_le_bytes64(value), 1,
                                    IF end <= BTREE_PAGE_SIZE THEN 8
                                    ELSE IF position < BTREE_PAGE_SIZE
                                         THEN BTREE_PAGE_SIZE - position ELSE 0)),
                         0, position, {<< position, end >>})

set_ptr(d, oc, idx, value) ==
    IF ~(idx < n_keys(d)) THEN Abort(d, 0)
    ELSE LET position == add16(oc, HEADER, mul16(oc, 8, idx))
             end == add16(oc, position, 8)
         IN  IF ~slice_index(position, end) THEN Abort(d, 0)
             ELSE Return(copy_from_slice(d, position, to_le_bytes64(value)),
                         0, position, {<< position, end >>})

offset_position(d, oc, idx) ==
    IF ~(1 < idx /\ idx < n_keys(d)) THEN PANIC
    ELSE add16(oc, add16(oc, HEADER, mul16(oc, 8, n_keys(d))), mul16(oc, 2, idx - 1))

get_offset(d, oc, idx) ==
    IF idx = 0 THEN Return(d, 0, 0, {})
    ELSE LET position == offset_position(d, oc, idx)
             end == add16(oc, position, 2)
         IN  IF ~slice_index(position, end) THEN Abort(d, 0)
             ELSE Return(d, from_le_bytes16(d, position), position, {<< position, end >>})

set_offset(d, oc, idx, value) ==
    LET position == offset_position(d, oc, idx)
        end == add16(oc, position, 2)
    IN  IF ~slice_index(position, end) THEN Abort(d, 0)
        ELSE Return(copy_from_slice(d, position, to_le_bytes16(value)),
                    0, position, {<< position, end >>})

get_kv_pair_position(d, oc, idx) ==
    IF ~(idx < n_keys(d)) THEN Abort(d, 0)
    ELSE LET base == add16(oc, add16(oc, HEADER, mul16(oc, 8, n_keys(d))),
                           mul16(oc, 2, n_keys(d)))
             off == get_offset(d, oc, idx)
             position == IF off.ok THEN add16(oc, base, off.val) ELSE PANIC
         IN  IF position = PANIC THEN Abort(d, 0)
             ELSE Return(d, position, position, off.acc)

get_key(d, oc, idx) ==
    IF ~(idx < n_keys(d)) THEN Abort(d, NOVIEW)
    ELSE LET kv == get_kv_pair_position(d, oc, idx)
             position == IF kv.ok THEN kv.val ELSE PANIC
             len_end == add16(oc, position, 2)
         IN  IF ~slice_index(position, len_end) THEN Abort(d, NOVIEW)
             ELSE LET key_length == from_le_bytes16(d, position)
                      lo == add16(oc, position, 4)
                      hi == add16(oc, add16(oc, position, 4), key_length)
                  IN  IF ~slice_index(lo, hi) THEN Abort(d, NOVIEW)
                      ELSE Return(d, << lo, hi >>, position,
                                  kv.acc \cup {<< position, len_end >>, << lo, hi >>})

get_value(d, oc, idx) ==
    IF ~(idx < n_keys(d)) THEN Abort(d, NOVIEW)
    ELSE LET kv == get_kv_pair_position(d, oc, idx)
             position == IF kv.ok THEN kv.val ELSE PANIC
             k_end == add16(oc, position, 2)
             v_lo == add16(oc, position, 2)
             v_end == add16(oc, position, 4)
         IN  IF ~slice_index(position, k_end) \/ ~slice_index(v_lo, v_end)
             THEN Abort(d, NOVIEW)
             ELSE LET key_length == from_le_bytes16(d, position)
                      value_length == from_le_bytes16(d, v_lo)
                      position_of_value_data ==
                          add16(oc, add16(oc, position, 4), key_length)
                      hi == add16(oc, position_of_value_data, value_length)
                  IN  IF ~slice_index(position_of_value_data, hi) THEN Abort(d, NOVIEW)
                      ELSE Return(d, << position_of_value_data, hi >>, position,
                                  kv.acc \cup {<< position, k_end >>, << v_lo, v_end >>,
                                               << position_of_value_data, hi >>})

num_used_bytes(d, oc) == get_kv_pair_position(d, oc, n_keys(d))

\* ------------------------------------------------------------ the layout
\* The documented layout of a node's page (the format comment of struct
\* BNode), in unbounded integers: where slot i's pointer, stored offset and
\* record live, and the bytes of a record.
ptr_slot(i) == HEADER + 8 * i
offset_slot(n, i) == HEADER + 8 * n + 2 * (i - 1)
kv_base(n) == HEADER + 8 * n + 2 * n
kv_bytes(key, val) ==
    to_le_bytes16(Len(key)) \o to_le_bytes16(Len(val)) \o key \o val

\* offset of record i: the total encoded length of the records before it
RECURSIVE kv_offset(_, _)
kv_offset(nd, i) ==
    IF i = 0 THEN 0
    ELSE kv_offset(nd, i - 1) + 4 + Len(nd.keys[i]) + Len(nd.vals[i])

\* ------------------------------------------------------------ inputs
FillBytes == {0, 255}
Tags == 1 .. 3
NKeyVals == {1, 2, 3, 8193}
Idxs == {0, 1, 2, 3, 511, 8192}
U64(x) == << x, 0, 0, 0 >>
PtrVals == {U64(99), << 513, 1001, 3001, 1027 >>}
OffVals == {262}
KeySet == {<< 97 >>, << 99, 100 >>}
ValSet == {<< 49 >>, << 51, 52, 53 >>}

\* the nodes built through the layout: n keys, pointer 10*(i+1) in slot i
Nodes ==
    UNION { [kind : {1, 2}, n : {n},
             ptrs : {[i \in 1 .. n |-> U64(10 * i)]},
             keys : [1 .. n -> KeySet],
             vals : [1 .. n -> ValSet]] : n \in 0 .. MaxKeys }
NoNode == [kind |-> 0, n |-> 0, ptrs |-> << >>, keys |-> << >>, vals |-> << >>]

\* ------------------------------------------------------------ state
VARIABLES
    data,             \* BNode.data
    overflow_checks,  \* the build profile: TRUE panics on overflow, FALSE wraps
    call,             \* the last call made on the node and its outcome
    ncalls,           \* calls made so far
    pc,               \* "free": any call; "header" .. "records": building; "done": built
    node,             \* the node being built through the layout
    bi,               \* the slot the builder is at
    raw_offsets       \* the builder stores the offset table bytes itself

vars == << data, overflow_checks, call, ncalls, pc, node, bi, raw_offsets >>

NoCall ==
    [op |-> "new", idx |-> 0, arg |-> 0, n |-> 0, ok |-> TRUE, ret |-> 0, pos |-> 0,
     acc |-> {}]

\* n is n_keys() when the call was made
Called(op, idx, arg, out) ==
    [op |-> op, idx |-> idx, arg |-> arg, n |-> n_keys(data), ok |-> out.ok,
     ret |-> out.val, pos |-> out.pos, acc |-> out.acc]

\* one call on the node: the page and the call record afterwards
Do(op, idx, arg, out) ==
    /\ call.ok
    /\ ncalls < MaxCalls
    /\ data' = out.data
    /\ call' = Called(op, idx, arg, out)
    /\ ncalls' = ncalls + 1
    /\ UNCHANGED << overflow_checks, pc, node, bi, raw_offsets >>

Init ==
    /\ \E b \in FillBytes : data = [p \in Page |-> b]
    /\ overflow_checks \in BOOLEAN
    /\ call = NoCall
    /\ ncalls = 0
    /\ pc = "free"
    /\ node = NoNode
    /\ bi = 0
    /\ raw_offsets = FALSE

\* ------------------------------------------------------------ readers
BType == pc \in {"free", "done"} /\ Do("b_type", 0, 0, b_type(data))

NKeys == pc \in {"free", "done"} /\ Do("n_keys", 0, 0, Return(data, n_keys(data), 2, {<< 2, 4 >>}))

GetPtr ==
    pc \in {"free", "done"} /\ \E idx \in Idxs : Do("get_ptr", idx, 0, get_ptr(data, overflow_checks, idx))

GetOffset ==
    pc \in {"free", "done"} /\ \E idx \in Idxs : Do("get_offset", idx, 0, get_offset(data, overflow_checks, idx))

GetKvPairPosition ==
    pc \in {"free", "done"} /\ \E idx \in Idxs :
        Do("get_kv_pair_position", idx, 0, get_kv_pair_position(data, overflow_checks, idx))

GetKey ==
    pc \in {"free", "done"} /\ \E idx \in Idxs : Do("get_key", idx, 0, get_key(data, overflow_checks, idx))

GetValue ==
    pc \in {"free", "done"} /\ \E idx \in Idxs : Do("get_value", idx, 0, get_value(data, overflow_checks, idx))

NumUsedBytes ==
    pc \in {"free", "done"} /\ Do("num_used_bytes", n_keys(data), 0, num_used_bytes(data, overflow_checks))

\* ------------------------------------------------------------ writers
SetHeader ==
    pc = "free" /\ \E t \in Tags, n \in NKeyVals :
        Do("set_header", 0, << t, n >>, set_header(data, t, n))

SetPtr ==
    pc = "free" /\ \E idx \in Idxs, v \in PtrVals :
        Do("set_ptr", idx, v, set_ptr(data, overflow_checks, idx, v))

SetOffset ==
    pc = "free" /\ \E idx \in Idxs, v \in OffVals :
        Do("set_offset", idx, v, set_offset(data, overflow_checks, idx, v))

Next ==
    \/ BType
    \/ NKeys
    \/ GetPtr
    \/ GetOffset
    \/ GetKvPairPosition
    \/ GetKey
    \/ GetValue
    \/ NumUsedBytes
    \/ SetHeader
    \/ SetPtr
    \/ SetOffset

Spec == Init /\ [][Next]_vars

\* ------------------------------------------------------------ building a node
\* A node is built in the order of the layout: the header, the n pointers,
\* the offsets of slots 1 .. n-1, then the n records.
InitBuild ==
    /\ \E b \in FillBytes : data = [p \in Page |-> b]
    /\ overflow_checks \in BOOLEAN
    /\ call = NoCall
    /\ ncalls = 0
    /\ pc = "header"
    /\ node \in Nodes
    /\ bi = 0
    /\ raw_offsets \in BOOLEAN

\* the builder's step after `phase` has handled slot i
AfterStep(phase, n, i) ==
    CASE phase = "header" -> IF n > 0 THEN << "ptrs", 0 >> ELSE << "done", 0 >>
      [] phase = "ptrs" ->
            IF i + 1 < n THEN << "ptrs", i + 1 >>
            ELSE IF n >= 2 THEN << "offsets", 1 >> ELSE << "records", 0 >>
      [] phase = "offsets" ->
            IF i + 1 < n THEN << "offsets", i + 1 >> ELSE << "records", 0 >>
      [] OTHER -> IF i + 1 < n THEN << "records", i + 1 >> ELSE << "done", 0 >>

\* one step of the builder; a step that panics leaves the builder where it is
Build(op, arg, out) ==
    /\ call.ok
    /\ data' = out.data
    /\ call' = Called(op, bi, arg, out)
    /\ pc' = IF out.ok THEN AfterStep(pc, node.n, bi)[1] ELSE pc
    /\ bi' = IF out.ok THEN AfterStep(pc, node.n, bi)[2] ELSE bi
    /\ UNCHANGED << overflow_checks, ncalls, node, raw_offsets >>

BuildHeader ==
    /\ pc = "header"
    /\ Build("set_header", << node.kind, node.n >>, set_header(data, node.kind, node.n))

BuildPtr ==
    /\ pc = "ptrs"
    /\ Build("set_ptr", node.ptrs[bi + 1], set_ptr(data, overflow_checks, bi, node.ptrs[bi + 1]))

\* the offset of slot bi through set_offset
BuildOffset ==
    /\ pc = "offsets"
    /\ ~raw_offsets
    /\ Build("set_offset", kv_offset(node, bi),
             set_offset(data, overflow_checks, bi, kv_offset(node, bi)))

\* the offset of slot bi stored in the table directly
StoreOffset ==
    /\ pc = "offsets"
    /\ raw_offsets
    /\ Build("store_offset", kv_offset(node, bi),
             Return(copy_from_slice(data, offset_slot(node.n, bi),
                                    to_le_bytes16(kv_offset(node, bi))),
                    0, offset_slot(node.n, bi),
                    {<< offset_slot(node.n, bi), offset_slot(node.n, bi) + 2 >>}))

\* the record of slot bi: k_len | v_len | key | val
StoreRecord ==
    /\ pc = "records"
    /\ LET position == kv_base(node.n) + kv_offset(node, bi)
           bytes == kv_bytes(node.keys[bi + 1], node.vals[bi + 1])
       IN  Build("store_record", 0,
                 Return(copy_from_slice(data, position, bytes), 0, position,
                        {<< position, position + Len(bytes) >>}))

NextBuild ==
    \/ BuildHeader
    \/ BuildPtr
    \/ BuildOffset
    \/ StoreOffset
    \/ StoreRecord
    \/ BType
    \/ NKeys
    \/ GetPtr
    \/ GetOffset
    \/ GetKvPairPosition
    \/ GetKey
    \/ GetValue
    \/ NumUsedBytes

SpecBuild == InitBuild /\ [][NextBuild]_vars

\* ------------------------------------------------------------ claims
KindName(k) == IF k = 1 THEN "InternalNode" ELSE "LeafNode"
ViewLen(view) == view[2] - view[1]
SlotOps == {"get_ptr", "set_ptr", "get_kv_pair_position", "get_key", "get_value"}
OffsetOps == {"get_offset", "set_offset"}

\* C1: round trip. A node with n >= 1 keys built in the documented layout
\* (header by set_header, pointers by set_ptr, offsets of slots 1..n-1 by
\* set_offset, records as k_len|v_len|key|val) is built without a panic, and
\* on the built page b_type, n_keys, get_ptr(i), get_key(i) and get_value(i)
\* return, for every i < n, the kind, n, and the i-th pointer, key and value.
C1_RoundTrip ==
    (node.n >= 1 /\ ~raw_offsets) =>
        /\ pc \in {"header", "ptrs", "offsets", "records"} => call.ok
        /\ pc = "done" =>
            /\ call.op = "b_type" => call.ok /\ call.ret = KindName(node.kind)
            /\ call.op = "n_keys" => call.ok /\ call.ret = node.n
            /\ (call.op = "get_ptr" /\ call.idx < node.n) =>
                   call.ok /\ call.ret = node.ptrs[call.idx + 1]
            /\ (call.op = "get_key" /\ call.idx < node.n) =>
                   call.ok /\ ViewBytes(data, call.ret) = node.keys[call.idx + 1]
            /\ (call.op = "get_value" /\ call.idx < node.n) =>
                   call.ok /\ ViewBytes(data, call.ret) = node.vals[call.idx + 1]

\* C2: on every built node (n = 0 included) num_used_bytes returns, and
\* returns the offset following the last record: 4 + 8n + 2n plus the
\* encoded length 4 + key length + value length of each of the n records.
C2_NumUsedBytes ==
    (pc = "done" /\ call.op = "num_used_bytes") =>
        call.ok /\ call.ret = kv_base(node.n) + kv_offset(node, node.n)

\* C3: get_offset(0) is 0 on any page; for 1 <= i < n_keys (the table slot
\* inside the page) get_offset(i) returns the little-endian u16 stored at
\* 4 + 8*n_keys + 2*(i-1), and set_offset(i, v) returns and is read back by
\* get_offset(i) as v, i = 1 included.
C3_Offsets ==
    /\ (call.op = "get_offset" /\ call.idx = 0) => call.ok /\ call.ret = 0
    /\ (call.op = "get_offset" /\ 1 <= call.idx /\ call.idx < call.n
          /\ offset_slot(call.n, call.idx) + 2 <= BTREE_PAGE_SIZE) =>
           call.ok /\ call.ret = from_le_bytes16(data, offset_slot(call.n, call.idx))
    /\ (call.op = "set_offset" /\ 1 <= call.idx /\ call.idx < call.n
          /\ offset_slot(call.n, call.idx) + 2 <= BTREE_PAGE_SIZE) =>
           /\ call.ok
           /\ get_offset(data, overflow_checks, call.idx).ok
           /\ get_offset(data, overflow_checks, call.idx).val = call.arg

\* C4: set_ptr(i, v) with i < n_keys and the slot 4+8i .. 4+8i+8 inside the
\* page returns and changes only those 8 bytes: get_ptr(i) is then v, and
\* get_ptr(j) is what it was for every j # i with j < n_keys.
C4_SetPtrFrame ==
    [][(call'.op = "set_ptr" /\ call'.idx < n_keys(data)
          /\ ptr_slot(call'.idx) + 8 <= BTREE_PAGE_SIZE) =>
           /\ call'.ok
           /\ copy_from_slice(data', ptr_slot(call'.idx),
                              ViewBytes(data, << ptr_slot(call'.idx), ptr_slot(call'.idx) + 8 >>))
                = data
           /\ get_ptr(data', overflow_checks, call'.idx).ok
           /\ get_ptr(data', overflow_checks, call'.idx).val = call'.arg
           /\ \A j \in Idxs \ {call'.idx} :
                  j < n_keys(data) =>
                      /\ get_ptr(data', overflow_checks, j).ok = get_ptr(data, overflow_checks, j).ok
                      /\ get_ptr(data', overflow_checks, j).val = get_ptr(data, overflow_checks, j).val
      ]_vars

\* the page `after` with the bytes of `before` put back in every range of acc
RECURSIVE PutBack(_, _, _)
PutBack(after, before, acc) ==
    IF acc = {} THEN after
    ELSE LET r == CHOOSE x \in acc : TRUE
         IN  PutBack(copy_from_slice(after, r[1], ViewBytes(before, r)), before, acc \ {r})

\* C5: on any page and for any index every accessor either panics or slices
\* the page only inside [0, 4096): each range it reads or writes lies inside
\* the page, it changes no byte outside the ranges it sliced, and a call
\* that panics leaves the page as it was.
C5_InPage ==
    [][/\ \A r \in call'.acc : 0 <= r[1] /\ r[1] <= r[2] /\ r[2] <= BTREE_PAGE_SIZE
       /\ DOMAIN data' = Page
       /\ ~call'.ok => data' = data
       /\ data' # data => PutBack(data', data, call'.acc) = data
      ]_vars

\* a call stopped by the slice bound, not by an assert: slot 511 of a node
\* with more than 511 keys ends at byte 4100
C5_Witness ==
    /\ call.op \in {"get_ptr", "set_ptr"}
    /\ call.idx = 511
    /\ call.idx < call.n
    /\ ~call.ok

\* C6: b_type returns InternalNode exactly when the little-endian tag at
\* bytes 0..2 is 1, LeafNode exactly when it is 2, and panics for every
\* other tag; after set_header(t, n), n_keys is n and b_type is the kind of
\* t for t in {1, 2}.
C6_BType ==
    LET tag == data[0] + 256 * data[1]
    IN  /\ call.op = "b_type" =>
            /\ (call.ok /\ call.ret = "InternalNode") <=> tag = 1
            /\ (call.ok /\ call.ret = "LeafNode") <=> tag = 2
            /\ ~call.ok <=> tag \notin {1, 2}
        /\ call.op = "set_header" =>
            /\ call.ok
            /\ n_keys(data) = call.arg[2]
            /\ call.arg[1] \in {1, 2} =>
                   b_type(data).ok /\ b_type(data).val = KindName(call.arg[1])
            /\ call.arg[1] \notin {1, 2} => ~b_type(data).ok

\* b_type answered LeafNode: on the pages of Init only after set_header(2, n)
C6_Witness ==
    /\ call.op = "b_type"
    /\ call.ok
    /\ call.ret = "LeafNode"
    /\ ncalls >= 2

\* C7: a slot index idx >= n_keys is never served: get_ptr, set_ptr,
\* get_kv_pair_position, get_key and get_value, and for idx # 0 get_offset
\* and set_offset, panic, and the page is as it was before the call.
C7_OutOfRange ==
    [][(/\ call'.idx >= n_keys(data)
        /\ \/ call'.op \in SlotOps
           \/ call'.op \in OffsetOps /\ call'.idx # 0) =>
           ~call'.ok /\ data' = data
      ]_vars

\* a writer refused for an index past the last slot
C7_Witness ==
    /\ call.op \in {"set_ptr", "set_offset"}
    /\ call.idx # 0
    /\ call.idx >= call.n
    /\ ~call.ok
    /\ call.n >= 1

\* C8: on a built node with n >= 2 keys, whose offsets follow the
\* construction rule, get_kv_pair_position(j) returns for every j < n and is
\* greater than get_kv_pair_position(i) for every i < j.
C8_Monotone ==
    (pc = "done" /\ node.n >= 2 /\ call.op = "get_kv_pair_position" /\ call.idx < node.n) =>
        /\ call.ok
        /\ \A i \in 0 .. (call.idx - 1) :
               /\ get_kv_pair_position(data, overflow_checks, i).ok
               /\ get_kv_pair_position(data, overflow_checks, i).val < call.ret

\* C9: no page the accessors can produce holds a record with a stored key
\* longer than BTREE_MAX_KEY_SIZE or a stored value longer than
\* BTREE_MAX_VAL_SIZE: get_key never returns more than 1000 bytes and
\* get_value never more than 3000.
C9_SizeLimits ==
    /\ (call.op = "get_key" /\ call.ok) => ViewLen(call.ret) <= BTREE_MAX_KEY_SIZE
    /\ (call.op = "get_value" /\ call.ok) => ViewLen(call.ret) <= BTREE_MAX_VAL_SIZE

\* C10: whenever a call returns, the position it computed in u16 is the
\* value of the same formula in unbounded integers: 4 + 8*idx for get_ptr
\* and set_ptr, 4 + 8*n_keys + 2*(idx-1) for the offset table,
\* 4 + 8*n_keys + 2*n_keys + offset for get_kv_pair_position, and
\* position + 4 + key length (+ value length) for the end of the slice of
\* get_key (get_value).
C10_NoWrap ==
    call.ok =>
        /\ call.op \in {"get_ptr", "set_ptr"} => call.pos = ptr_slot(call.idx)
        /\ (call.op \in OffsetOps /\ call.idx # 0) =>
               call.pos = offset_slot(call.n, call.idx)
        /\ (call.op = "get_kv_pair_position" /\ call.idx = 0) => call.ret = kv_base(call.n)
        /\ (call.op = "get_kv_pair_position" /\ call.idx # 0) =>
               call.ret = kv_base(call.n) + get_offset(data, overflow_checks, call.idx).val
        /\ call.op = "get_key" =>
               call.ret[2] = call.pos + 4 + from_le_bytes16(data, call.pos)
        /\ call.op = "get_value" =>
               call.ret[2] = call.pos + 4 + from_le_bytes16(data, call.pos)
                               + from_le_bytes16(data, call.pos + 2)

====
